---- MODULE Spec2Model ----
(***************************************************************************)
(* Model of the UF-Scheduler backend (src/server.py): the per-term FTS     *)
(* index built at start-up, the /api/get_courses search, the per-term      *)
(* department prerequisite graphs and the /generate_a_list rendering.      *)
(*                                                                         *)
(* Python strings that the code takes apart (course codes, prerequisite    *)
(* text, search phrases, indexed text) are sequences of one-character      *)
(* strings; atomic strings are used only for values the code passes        *)
(* around whole (department names, year and term tokens).                  *)
(***************************************************************************)
EXTENDS Integers, Sequences, FiniteSets, TLC

VARIABLES
    phase,                  \* "down" | "init" | "graphs" | "serving" | "crashed"
    json_files,             \* files of the init loop not yet processed
    disk,                   \* db_name -> the SQLite file courses_{year}_{term}.db
    year_term_course_list,  \* (year, term) -> all_courses
    major_graph_map,        \* (year, term) -> (deptName -> DiGraph)
    resp,                   \* the response being returned, if any
    arg,                    \* input of the pure-function specifications
    result                  \* outputs of the pure-function specifications

vars == <<phase, json_files, disk, year_term_course_list, major_graph_map,
          resp, arg, result>>

-----------------------------------------------------------------------------
(* Bounds *)

MaxFiles == 2       \* files found by glob in one process start
MaxTaken == 2       \* length of selectedCoursesServ in a request
MaxPage == 1        \* largest page size k whose pages are compared
MaxRank == 1        \* bm25 scores are drawn from 0..MaxRank
MaxCodeLen == 5     \* length of the codes given to the normalization
MaxCourses == 3     \* records in a collection given to the graph builder

-----------------------------------------------------------------------------
(* Characters and the Python string methods the code uses *)

UpperChars == {"A","B","C","D","E","F","G","H","I","J","K","L","M",
               "N","O","P","Q","R","S","T","U","V","W","X","Y","Z"}
LowerChars == {"a","b","c","d","e","f","g","h","i","j","k","l","m",
               "n","o","p","q","r","s","t","u","v","w","x","y","z"}
DigitChars == {"0","1","2","3","4","5","6","7","8","9"}
\* what \s and str.strip()/str.split() treat as whitespace
SpaceChars == {" ", "\t", "\n", "\r", "\f"}

UpperSeq == <<"A","B","C","D","E","F","G","H","I","J","K","L","M",
              "N","O","P","Q","R","S","T","U","V","W","X","Y","Z">>
LowerSeq == <<"a","b","c","d","e","f","g","h","i","j","k","l","m",
              "n","o","p","q","r","s","t","u","v","w","x","y","z">>

Min(a, b) == IF a < b THEN a ELSE b
Max(a, b) == IF a > b THEN a ELSE b

\* s[:n] and s[n:] of Python, for n >= 0
Take(s, n) == SubSeq(s, 1, Min(n, Len(s)))
Drop(s, n) == SubSeq(s, Min(n, Len(s)) + 1, Len(s))

InSeq(x, s) == \E i \in 1..Len(s) : s[i] = x

RECURSIVE RStrip(_, _)
\* s.rstrip(chars)
RStrip(s, chars) ==
    IF s # <<>> /\ s[Len(s)] \in chars THEN RStrip(SubSeq(s, 1, Len(s) - 1), chars)
    ELSE s

RECURSIVE LStrip(_, _)
LStrip(s, chars) ==
    IF s # <<>> /\ s[1] \in chars THEN LStrip(Tail(s), chars) ELSE s

\* s.strip()
Strip(s) == LStrip(RStrip(s, SpaceChars), SpaceChars)

\* s.replace(" ", "")
RemoveSpaces(s) == SelectSeq(s, LAMBDA ch : ch # " ")

RECURSIVE SplitOn(_, _, _, _)
\* the maximal runs of non-separator characters of s, in order; a character
\* is a separator when its membership in chars is inChars; cur is the run
\* being read
SplitOn(s, chars, inChars, cur) ==
    IF s = <<>> THEN (IF cur = <<>> THEN <<>> ELSE <<cur>>)
    ELSE IF (s[1] \in chars) = inChars
         THEN (IF cur = <<>> THEN <<>> ELSE <<cur>>)
              \o SplitOn(Tail(s), chars, inChars, <<>>)
         ELSE SplitOn(Tail(s), chars, inChars, Append(cur, s[1]))

\* s.split()
Split(s) == SplitOn(s, SpaceChars, TRUE, <<>>)

RECURSIVE Join(_, _)
\* sep.join(parts)
Join(parts, sep) ==
    IF parts = <<>> THEN <<>>
    ELSE IF Len(parts) = 1 THEN parts[1]
    ELSE parts[1] \o sep \o Join(Tail(parts), sep)

IsPrefix(p, s) == Len(p) <= Len(s) /\ SubSeq(s, 1, Len(p)) = p

-----------------------------------------------------------------------------
(* Course-code normalization of the graph subsystem *)

Separator == "\n"

format_course_code_idem(course) ==
    IF Len(course) > 3 /\ course[4] = Separator THEN course
    ELSE Take(course, 3) \o <<Separator>> \o Drop(course, 3)

\* course[:3] + '\n' + course[3:]
format_course_code(course) ==
    Take(course, 3) \o <<Separator>> \o Drop(course, 3)

\* code.rstrip('ABCDEFGHIJKLMNOPQRSTUVWXYZ ')
StripSuffix(code) == RStrip(code, UpperChars \cup {" "})

\* format_course_code(code.rstrip('ABCDEFGHIJKLMNOPQRSTUVWXYZ '))
course_fmt(code) == format_course_code(StripSuffix(code))

\* format_course_code(prereq.replace(" ", "").rstrip(' '))
pre_fmt(prereq) == format_course_code(RStrip(RemoveSpaces(prereq), {" "}))

-----------------------------------------------------------------------------
(* Python dicts: a missing key is a key outside the record's domain *)

\* d.get(k, default)
Get(d, k, default) == IF k \in DOMAIN d THEN d[k] ELSE default

EmptyFcn == [x \in {} |-> <<>>]

\* a dict whose iteration order matters: keys in first-insertion order
EmptyDict == [keys |-> <<>>, val |-> EmptyFcn]

\* d[k] = v
DictSet(d, k, v) ==
    IF k \in DOMAIN d.val THEN [d EXCEPT !.val[k] = v]
    ELSE [keys |-> Append(d.keys, k), val |-> d.val @@ (k :> v)]

-----------------------------------------------------------------------------
(* nx.DiGraph: nodes in insertion order, successors of each node in         *)
(* insertion order                                                         *)

EmptyGraph == [nodes |-> <<>>, adj |-> EmptyFcn]

add_node(G, n) ==
    IF n \in DOMAIN G.adj THEN G
    ELSE [nodes |-> Append(G.nodes, n), adj |-> G.adj @@ (n :> <<>>)]

add_edge(G, u, v) ==
    LET G2 == add_node(add_node(G, u), v)
    IN  [G2 EXCEPT !.adj[u] = IF InSeq(v, @) THEN @ ELSE Append(@, v)]

RECURSIVE EdgesFrom(_, _)
\* G.edges(): for each node in order, for each successor in order
EdgesFrom(G, ns) ==
    IF ns = <<>> THEN <<>>
    ELSE [i \in 1..Len(G.adj[ns[1]]) |-> <<ns[1], G.adj[ns[1]][i]>>]
         \o EdgesFrom(G, Tail(ns))

Edges(G) == EdgesFrom(G, G.nodes)

EdgeSet(G) == {Edges(G)[i] : i \in 1..Len(Edges(G))}
NodeSet(G) == {G.nodes[i] : i \in 1..Len(G.nodes)}

-----------------------------------------------------------------------------
(* Prerequisite Graph Builder *)

\* [A-Z]{3}\s\d{4} matches s at position i
PrereqAt(s, i) ==
    /\ i + 7 <= Len(s)
    /\ \A j \in 0..2 : s[i + j] \in UpperChars
    /\ s[i + 3] \in SpaceChars
    /\ \A j \in 4..7 : s[i + j] \in DigitChars

RECURSIVE FindAllFrom(_, _)
\* re.findall: the non-overlapping matches, leftmost first
FindAllFrom(s, i) ==
    IF i + 7 > Len(s) THEN <<>>
    ELSE IF PrereqAt(s, i) THEN <<SubSeq(s, i, i + 7)>> \o FindAllFrom(s, i + 8)
    ELSE FindAllFrom(s, i + 1)

clean_prereq(prerequisites) == FindAllFrom(prerequisites, 1)

\* sections[0].get("deptName", "") if sections else ""
DeptOf(course) ==
    LET sections == Get(course, "sections", <<>>)
    IN  IF sections # <<>> THEN Get(sections[1], "deptName", "") ELSE ""

RECURSIVE CodeMaps(_, _)
\* the first loop: code_dept_map and code_prereq_map, later records of a
\* code overwriting earlier ones
CodeMaps(courses, maps) ==
    IF courses = <<>> THEN maps
    ELSE LET course == courses[1]
             code == course["code"]
         IN  CodeMaps(Tail(courses),
                 [dept   |-> DictSet(maps.dept, code, DeptOf(course)),
                  prereq |-> DictSet(maps.prereq, code,
                                     Get(course, "prerequisites", <<>>))])

RECURSIVE GroupByDept(_, _, _)
\* major_courses_map.setdefault(dept, []).append(code)
GroupByDept(keys, code_dept_map, major_courses_map) ==
    IF keys = <<>> THEN major_courses_map
    ELSE LET dept == code_dept_map.val[keys[1]]
         IN  GroupByDept(Tail(keys), code_dept_map,
                 DictSet(major_courses_map, dept,
                         Append(Get(major_courses_map.val, dept, <<>>), keys[1])))

AddPrereqEdge_unguarded(G, pre, crs) == add_edge(G, pre, crs)

\* if course_fmt != pre_fmt: G.add_edge(pre_fmt, course_fmt)
AddPrereqEdge(G, pre, crs) ==
    IF crs # pre THEN add_edge(G, pre, crs) ELSE G

RECURSIVE AddPrereqs(_, _, _)
AddPrereqs(G, prereq_list, crs) ==
    IF prereq_list = <<>> THEN G
    ELSE AddPrereqs(AddPrereqEdge(G, pre_fmt(prereq_list[1]), crs),
                    Tail(prereq_list), crs)

RECURSIVE DeptGraph(_, _, _)
\* the graph of one department: the loop over its codes
DeptGraph(G, codes, code_prereq_map) ==
    IF codes = <<>> THEN G
    ELSE DeptGraph(AddPrereqs(G, clean_prereq(code_prereq_map.val[codes[1]]),
                              course_fmt(codes[1])),
                   Tail(codes), code_prereq_map)

\* raises KeyError on a record without 'code'
BuildRaises(all_courses) ==
    \E i \in 1..Len(all_courses) : "code" \notin DOMAIN all_courses[i]

\* graphs_for_majors, for records that all have a code
build_graph_for_all_majors(all_courses) ==
    LET maps == CodeMaps(all_courses, [dept |-> EmptyDict, prereq |-> EmptyDict])
        major_courses_map == GroupByDept(maps.dept.keys, maps.dept, EmptyDict)
    IN  [dept \in DOMAIN major_courses_map.val |->
            DeptGraph(EmptyGraph, major_courses_map.val[dept], maps.prereq)]

-----------------------------------------------------------------------------
(* Term Index Store: the rows of courses_fts *)

\* json.dumps(course) and json.loads(json_data)
json_dumps(course) == [json |-> course]
json_loads(json_data) == json_data.json

RECURSIVE InstructorNames(_)
\* the names of one section's instructors
InstructorNames(instructors) ==
    IF instructors = <<>> THEN <<>>
    ELSE <<Get(instructors[1], "name", <<>>)>> \o InstructorNames(Tail(instructors))

RECURSIVE AllInstructorNames(_)
AllInstructorNames(sections) ==
    IF sections = <<>> THEN <<>>
    ELSE InstructorNames(Get(sections[1], "instructors", <<>>))
         \o AllInstructorNames(Tail(sections))

\* the row inserted for one course
IndexedDocument(course) ==
    [code          |-> course["code"],
     codeWithSpace |-> Get(course, "codeWithSpace", <<>>),
     name          |-> Get(course, "name", <<>>),
     description   |-> Get(course, "description", <<>>),
     instructors   |-> Join(AllInstructorNames(Get(course, "sections", <<>>)), <<" ">>),
     json_data     |-> json_dumps(course)]

InsertedRows_distinct(all_courses) ==
    LET n == CHOOSE k \in 0..Len(all_courses) :
                 /\ \A i \in 1..k : "code" \in DOMAIN all_courses[i]
                 /\ k < Len(all_courses) => "code" \notin DOMAIN all_courses[k + 1]
        docs[i \in 0..n] ==
            IF i = 0 THEN <<>>
            ELSE IF \E j \in 1..(i - 1) : all_courses[j].code = all_courses[i].code
                 THEN docs[i - 1]
                 ELSE Append(docs[i - 1], IndexedDocument(all_courses[i]))
    IN  docs[n]

RECURSIVE InsertedRows(_)
\* the rows the insert loop writes for all_courses, up to the first record
\* without 'code' (course['code'] raises KeyError there)
InsertedRows(all_courses) ==
    IF all_courses = <<>> \/ "code" \notin DOMAIN all_courses[1] THEN <<>>
    ELSE <<IndexedDocument(all_courses[1])>> \o InsertedRows(Tail(all_courses))

InsertRaises(all_courses) ==
    \E i \in 1..Len(all_courses) : "code" \notin DOMAIN all_courses[i]

\* f'courses_{year}_{term}.db'
DbName(year, term) == <<"courses", year, term, "db">>

\* parse_year_term_from_filename, on the basename split at '_'
parse_year_term_from_filename(parts) ==
    LET year == parts[Len(parts) - 2]
        term == parts[Len(parts) - 1]
    IN  <<year, IF term = "final.json" THEN "" ELSE term>>

EmptyTable == [table |-> TRUE, rows |-> <<>>]
NoTable == [table |-> FALSE, rows |-> <<>>]

\* the file after sqlite3.connect(db_name): created when it does not exist
Connect(d, db_name) == IF db_name \in DOMAIN d THEN d ELSE d @@ (db_name :> NoTable)

RowsAfterBuild_always(rows, all_courses) == rows \o InsertedRows(all_courses)

\* if row_count == 0: insert every course, commit
RowsAfterBuild(rows, all_courses) ==
    IF Len(rows) = 0 THEN InsertedRows(all_courses) ELSE rows

-----------------------------------------------------------------------------
(* Search Query Engine: the FTS5 query of get_courses *)

AlnumChars == UpperChars \cup LowerChars \cup DigitChars

\* case folding of the unicode61 tokenizer
Fold(ch) ==
    IF ch \in UpperChars
    THEN LowerSeq[CHOOSE i \in 1..26 : UpperSeq[i] = ch]
    ELSE ch

FoldAll(s) == [i \in 1..Len(s) |-> Fold(s[i])]

\* the tokens of an indexed text: maximal alphanumeric runs, case-folded
Tokenize(text) ==
    LET runs == SplitOn(text, AlnumChars, FALSE, <<>>)
    IN  {FoldAll(runs[i]) : i \in 1..Len(runs)}

DocTokens(doc) ==
    Tokenize(doc.code) \cup Tokenize(doc.codeWithSpace) \cup Tokenize(doc.name)
    \cup Tokenize(doc.description) \cup Tokenize(doc.instructors)

\* terms = searchTerm.split(); ' '.join(t + '*' for t in terms)
FtsQuery(searchTerm) ==
    LET terms == Split(searchTerm)
    IN  Join([i \in 1..Len(terms) |-> Append(terms[i], "*")], <<" ">>)

FtsKeywords == {<<"A","N","D">>, <<"O","R">>, <<"N","O","T">>}

\* one item of the FTS5 query is a bareword followed by the prefix marker
FtsItemOk(item) ==
    LET word == SubSeq(item, 1, Len(item) - 1)
    IN  /\ Len(item) >= 2
        /\ item[Len(item)] = "*"
        /\ \A i \in 1..Len(word) : word[i] \in AlnumChars
        /\ word \notin FtsKeywords

\* FTS5 rejects the query (sqlite3.OperationalError)
FtsSyntaxError(fts_query) ==
    \E i \in 1..Len(Split(fts_query)) : ~FtsItemOk(Split(fts_query)[i])

\* the prefixes the parsed query asks for
FtsPrefixes(fts_query) ==
    LET items == Split(fts_query)
    IN  {FoldAll(SubSeq(items[i], 1, Len(items[i]) - 1)) : i \in 1..Len(items)}

\* WHERE courses_fts MATCH :ftsQuery
Matches(doc, fts_query) ==
    \A q \in FtsPrefixes(fts_query) : \E tok \in DocTokens(doc) : IsPrefix(q, tok)

\* CASE WHEN codeWithSpace = :exactSearch OR code = :exactSearch THEN 0 ELSE 1 END
top_sort(doc, exactSearch) ==
    IF doc.codeWithSpace = exactSearch \/ doc.code = exactSearch THEN 0 ELSE 1

OrderedBefore_rankFirst(a, b) ==
    \/ a.rank < b.rank
    \/ a.rank = b.rank /\ a.top_sort < b.top_sort

\* ORDER BY top_sort, rank: row a sorts strictly before row b
OrderedBefore(a, b) ==
    \/ a.top_sort < b.top_sort
    \/ a.top_sort = b.top_sort /\ a.rank < b.rank

RECURSIVE SortInsert(_, _)
\* SQLite's sorter is stable: a row goes after the rows it does not sort
\* strictly before
SortInsert(sorted, row) ==
    IF sorted = <<>> THEN <<row>>
    ELSE IF OrderedBefore(row, sorted[1]) THEN <<row>> \o sorted
    ELSE <<sorted[1]>> \o SortInsert(Tail(sorted), row)

RECURSIVE SortRows(_, _)
SortRows(sorted, rows) ==
    IF rows = <<>> THEN sorted
    ELSE SortRows(SortInsert(sorted, rows[1]), Tail(rows))

LimitOffset_pageLocal(rows, limit, offset) ==
    Drop(IF limit < 0 THEN rows ELSE Take(rows, limit), Max(offset, 0))

\* LIMIT :limit OFFSET :offset (a negative limit is no limit, a negative
\* offset is 0)
LimitOffset(rows, limit, offset) ==
    LET rest == Drop(rows, Max(offset, 0))
    IN  IF limit < 0 THEN rest ELSE Take(rest, limit)

\* the rows of the SELECT, in order; bm25 gives the score of each rowid
SelectRows(rows, exactSearch, fts_query, bm25, limit, offset) ==
    LET scan == [i \in 1..Len(rows) |->
                    [rowid |-> i, json_data |-> rows[i].json_data,
                     rank |-> bm25[i],
                     top_sort |-> top_sort(rows[i], exactSearch)]]
        matching == SelectSeq(scan, LAMBDA r : Matches(rows[r.rowid], fts_query))
    IN  LimitOffset(SortRows(<<>>, matching), limit, offset)

\* results = [json.loads(row['json_data']) for row in rows]
Results(selected) == [i \in 1..Len(selected) |-> json_loads(selected[i].json_data)]

-----------------------------------------------------------------------------
(* Graph Materializer: generate_a_list *)

AddNodes_none(G, courses) == G

RECURSIVE AddNodes(_, _)
\* for course in formatted_taken_courses: G.add_node(course)
AddNodes(G, courses) ==
    IF courses = <<>> THEN G ELSE AddNodes(add_node(G, courses[1]), Tail(courses))

BaseGraph_unassigned(graph_map, year, term, selected_major) ==
    LET major_graphs == Get(graph_map, <<year, term>>, EmptyFcn)
    IN  Get(major_graphs, selected_major, Get(major_graphs, "", EmptyGraph))

\* major_graph_map.get((year, term), {}).get(selected_major, nx.DiGraph())
BaseGraph(graph_map, year, term, selected_major) ==
    Get(Get(graph_map, <<year, term>>, EmptyFcn), selected_major, EmptyGraph)

StoredAfterRequest_shared(base_graph, G) == G

\* G = base_graph.copy(): the request works on a new object, so the stored
\* graph after the request is the stored graph before it
StoredAfterRequest(base_graph, G) == base_graph

\* "selected" if node in formatted_taken_courses else "not_selected"
NodeClass(node, formatted_taken_courses) ==
    IF InSeq(node, formatted_taken_courses) THEN "selected" ELSE "not_selected"

\* the body of the response, for the request's copy of the stored graph
Rendered(base_graph, taken_courses) ==
    LET formatted_taken_courses ==
            [i \in 1..Len(taken_courses) |-> course_fmt(taken_courses[i])]
        G == AddNodes(base_graph, formatted_taken_courses)
    IN  [graph |-> G,
         nodes |-> [i \in 1..Len(G.nodes) |->
                      [id |-> G.nodes[i],
                       classes |-> NodeClass(G.nodes[i], formatted_taken_courses)]],
         edges |-> [i \in 1..Len(Edges(G)) |->
                      [source |-> Edges(G)[i][1], target |-> Edges(G)[i][2]]]]

-----------------------------------------------------------------------------
(* The course files the process can find, and the requests it can get *)

COP3502C == <<"C","O","P","3","5","0","2","C">>
COP3503 == <<"C","O","P","3","5","0","3">>
MAC2311 == <<"M","A","C","2","3","1","1">>
ENC1101 == <<"E","N","C","1","1","0","1">>

CourseA ==
    [code |-> COP3502C, codeWithSpace |-> <<"C","O","P"," ","3","5","0","2","C">>, name |-> <<"P","r","o","g">>,
     description |-> <<"C","O","P","3","5","0","3"," ","3","5","0","3">>, prerequisites |-> <<"C","O","P"," ","3","5","0","2">>,
     sections |-> <<[deptName |-> "CISE", instructors |-> <<[name |-> <<"A","n","n">>]>>]>>]

CourseB ==
    [code |-> COP3503, codeWithSpace |-> <<"C","O","P"," ","3","5","0","3">>, name |-> <<"P","r","o","g">>,
     description |-> <<>>, prerequisites |-> <<"C","O","P"," ","3","5","0","2">>,
     sections |-> <<[deptName |-> "CISE",
                     instructors |-> <<[name |-> <<"A","n","n">>], [name |-> <<"B","o">>]>>]>>]

\* a second record of the code COP3503, in another department
CourseB2 ==
    [code |-> COP3503, codeWithSpace |-> <<"C","O","P"," ","3","5","0","3">>, name |-> <<"P","r","o","g">>,
     description |-> <<>>, prerequisites |-> <<"M","A","C","\t","2","3","1","1">>,
     sections |-> <<[deptName |-> "Math", instructors |-> <<>>]>>]

\* no sections and no codeWithSpace
CourseM ==
    [code |-> MAC2311, name |-> <<"C","a","l","c">>, prerequisites |-> <<"M","A","C"," ","1","1","4","7">>]

\* a record without 'code'
CourseBad == [name |-> <<"B","a","d">>]

CourseFiles ==
    {[parts |-> <<"UF", "25", "fall", "final.json">>, courses |-> <<CourseA, CourseB>>],
     [parts |-> <<"UF2", "25", "fall", "final.json">>, courses |-> <<CourseB2, CourseM>>],
     [parts |-> <<"UF", "25", "spring", "final.json">>, courses |-> <<CourseM, CourseBad>>],
     [parts |-> <<"UF3", "25", "spring", "final.json">>,
      courses |-> <<CourseB, CourseB2, CourseA>>]}

RECURSIVE SeqsUpTo(_, _)
\* the sequences of at most n elements of S
SeqsUpTo(S, n) ==
    IF n = 0 THEN {<<>>}
    ELSE SeqsUpTo(S, n - 1)
         \cup {Append(q, x) : q \in {r \in SeqsUpTo(S, n - 1) : Len(r) = n - 1}, x \in S}

\* what glob can return: distinct files, in any order
JsonFileLists ==
    {fs \in SeqsUpTo(CourseFiles, MaxFiles) :
        \A i, j \in 1..Len(fs) : i # j => fs[i] # fs[j]}

Years == {"25", ""}
Terms == {"fall", "spring", "summer"}
Majors == {"CISE", "Math", "", "Hist"}
TakenLists == SeqsUpTo({COP3502C, MAC2311, ENC1101}, MaxTaken)
Phrases == {<<"C","O","P","3","5","0","3">>, <<"C","O","P"," ","3","5","0","3">>, <<" ","p","r","o","g">>, <<"C","+">>, <<" ">>, <<"M","A","C">>}
Limits == {-1} \cup 1..(2 * MaxPage)
Offsets == 0..MaxPage

NoResponse == [op |-> "none"]

-----------------------------------------------------------------------------
(* The process: start-up (the init loop, then the graphs), then serving *)

Init ==
    /\ phase = "down"
    /\ json_files = <<>>
    /\ disk = EmptyFcn
    /\ year_term_course_list = EmptyFcn
    /\ major_graph_map = EmptyFcn
    /\ resp = NoResponse
    /\ arg = <<>>
    /\ result = <<>>

\* a (re)start of the process: json_files = glob.glob('courses/*_final.json');
\* the SQLite files outlive the process, the globals do not
StartProcess ==
    /\ phase \in {"down", "serving", "crashed"}
    /\ resp = NoResponse
    /\ \E files \in JsonFileLists : json_files' = files
    /\ phase' = "init"
    /\ year_term_course_list' = EmptyFcn
    /\ major_graph_map' = EmptyFcn
    /\ resp' = NoResponse
    /\ UNCHANGED <<disk, arg, result>>

\* init_db_for_file(jpath) for the next file of the init loop
init_db_for_file ==
    /\ phase = "init"
    /\ json_files # <<>>
    /\ LET key == parse_year_term_from_filename(json_files[1].parts)
           db_name == DbName(key[1], key[2])
           all_courses == json_files[1].courses
           opened == Connect(disk, db_name)
           rows == opened[db_name].rows      \* CREATE VIRTUAL TABLE IF NOT EXISTS
       IN  IF Len(rows) = 0 /\ InsertRaises(all_courses)
           THEN \* KeyError before the commit: the inserts are rolled back
                /\ disk' = [opened EXCEPT ![db_name] = EmptyTable]
                /\ phase' = "crashed"
                /\ UNCHANGED <<json_files, year_term_course_list>>
           ELSE /\ disk' = [opened EXCEPT ![db_name] =
                               [table |-> TRUE, rows |-> RowsAfterBuild(rows, all_courses)]]
                /\ year_term_course_list' =
                       IF key \in DOMAIN year_term_course_list
                       THEN [year_term_course_list EXCEPT ![key] = all_courses]
                       ELSE year_term_course_list @@ (key :> all_courses)
                /\ json_files' = Tail(json_files)
                /\ UNCHANGED phase
    /\ UNCHANGED <<major_graph_map, resp, arg, result>>

\* the loop that fills major_graph_map, and del year_term_course_list
BuildGraphs ==
    /\ phase = "init"
    /\ json_files = <<>>
    /\ IF \E key \in DOMAIN year_term_course_list :
              BuildRaises(year_term_course_list[key])
       THEN /\ phase' = "crashed"
            /\ UNCHANGED <<year_term_course_list, major_graph_map>>
       ELSE /\ major_graph_map' =
                   [key \in DOMAIN year_term_course_list |->
                       build_graph_for_all_majors(year_term_course_list[key])]
            /\ year_term_course_list' = EmptyFcn
            /\ phase' = "serving"
    /\ UNCHANGED <<json_files, disk, resp, arg, result>>

SearchRequests ==
    [searchTerm : Phrases, itemsPerPage : Limits, startFrom : Offsets,
     year : Years, term : Terms]

\* the scores bm25() can give the rows that match
ScoreFns(rows, fts_query) ==
    {f \in [1..Len(rows) -> 0..MaxRank] :
        \A i \in 1..Len(rows) : ~Matches(rows[i], fts_query) => f[i] = 0}

\* the response of get_courses to data when the file system is d
SearchResponse(d, data, bm25) ==
    LET searchTerm == Strip(data.searchTerm)
        db_name == DbName(data.year, data.term)
        fts_query == FtsQuery(searchTerm)
    IN  IF data.year = "" \/ data.term = ""
        THEN [op |-> "get_courses", req |-> data, status |-> 400,
              error |-> "Missing 'year' or 'term' in request body"]
        ELSE IF searchTerm = <<>>
        THEN [op |-> "get_courses", req |-> data, status |-> 200, body |-> <<>>,
              bm25 |-> bm25]
        ELSE IF db_name \notin DOMAIN d \/ ~d[db_name].table
        THEN [op |-> "get_courses", req |-> data, status |-> 500,
              error |-> "OperationalError: no such table"]
        ELSE IF FtsSyntaxError(fts_query)
        THEN [op |-> "get_courses", req |-> data, status |-> 500,
              error |-> "OperationalError: fts5 syntax error"]
        ELSE [op |-> "get_courses", req |-> data, status |-> 200,
              body |-> Results(SelectRows(d[db_name].rows, searchTerm, fts_query,
                                          bm25, data.itemsPerPage, data.startFrom)),
              bm25 |-> bm25]

\* the rows the query of the request scans
ScannedRows(d, data) ==
    LET db_name == DbName(data.year, data.term)
    IN  IF /\ data.year # "" /\ data.term # ""
           /\ Strip(data.searchTerm) # <<>>
           /\ db_name \in DOMAIN d
           /\ ~FtsSyntaxError(FtsQuery(Strip(data.searchTerm)))
        THEN d[db_name].rows ELSE <<>>

\* POST /api/get_courses
get_courses ==
    /\ phase = "serving"
    /\ resp = NoResponse
    /\ \E data \in SearchRequests :
         \E bm25 \in ScoreFns(ScannedRows(disk, data), FtsQuery(Strip(data.searchTerm))) :
            /\ resp' = SearchResponse(disk, data, bm25)
            /\ disk' = IF data.year = "" \/ data.term = "" \/ Strip(data.searchTerm) = <<>>
                       THEN disk
                       ELSE Connect(disk, DbName(data.year, data.term))
    /\ UNCHANGED <<phase, json_files, year_term_course_list, major_graph_map,
                   arg, result>>

GraphRequests ==
    [selectedMajorServ : Majors, selectedCoursesServ : TakenLists,
     year : Years, term : Terms]

\* POST /generate_a_list
generate_a_list ==
    /\ phase = "serving"
    /\ resp = NoResponse
    /\ \E data \in GraphRequests :
         LET key == <<data.year, data.term>>
             base_graph == BaseGraph(major_graph_map, data.year, data.term,
                                     data.selectedMajorServ)
             out == Rendered(base_graph, data.selectedCoursesServ)
         IN  /\ resp' = [op |-> "generate_a_list", req |-> data, status |-> 200,
                         nodes |-> out.nodes, edges |-> out.edges]
             /\ major_graph_map' =
                    IF key \in DOMAIN major_graph_map
                       /\ data.selectedMajorServ \in DOMAIN major_graph_map[key]
                    THEN [major_graph_map EXCEPT ![key][data.selectedMajorServ] =
                              StoredAfterRequest(@, out.graph)]
                    ELSE major_graph_map
    /\ UNCHANGED <<phase, json_files, disk, year_term_course_list, arg, result>>

\* return jsonify(...): the response leaves the process, which can then take
\* the next request
ReturnResponse ==
    /\ resp # NoResponse
    /\ resp' = NoResponse
    /\ UNCHANGED <<phase, json_files, disk, year_term_course_list,
                   major_graph_map, arg, result>>

Next ==
    \/ StartProcess
    \/ init_db_for_file
    \/ BuildGraphs
    \/ get_courses
    \/ generate_a_list
    \/ ReturnResponse

Spec == Init /\ [][Next]_vars

-----------------------------------------------------------------------------
(* The normalization applied to given codes, and applied again to its own   *)
(* output                                                                  *)

NormChars == {"C", "c", "1", " ", Separator}

InitNorm ==
    /\ arg \in SeqsUpTo(NormChars, MaxCodeLen)
    /\ result = <<>>
    /\ phase = "down"
    /\ json_files = <<>>
    /\ disk = EmptyFcn
    /\ year_term_course_list = EmptyFcn
    /\ major_graph_map = EmptyFcn
    /\ resp = NoResponse

\* course_fmt of the code
NormalizeCode ==
    /\ result = <<>>
    /\ result' = <<course_fmt(arg)>>
    /\ UNCHANGED <<phase, json_files, disk, year_term_course_list,
                   major_graph_map, resp, arg>>

\* course_fmt of an already normalized code
NormalizeAgain ==
    /\ Len(result) = 1
    /\ result' = Append(result, course_fmt(result[1]))
    /\ UNCHANGED <<phase, json_files, disk, year_term_course_list,
                   major_graph_map, resp, arg>>

NextNorm == NormalizeCode \/ NormalizeAgain

SpecNorm == InitNorm /\ [][NextNorm]_vars

-----------------------------------------------------------------------------
(* The graph builder applied to given record collections *)

RecordPool == {CourseA, CourseB, CourseB2, CourseM, CourseBad}

InitBuild ==
    /\ arg \in SeqsUpTo(RecordPool, MaxCourses)
    /\ result = <<>>
    /\ phase = "down"
    /\ json_files = <<>>
    /\ disk = EmptyFcn
    /\ year_term_course_list = EmptyFcn
    /\ major_graph_map = EmptyFcn
    /\ resp = NoResponse

BuildGraphsOf ==
    /\ result = <<>>
    /\ result' = IF BuildRaises(arg) THEN <<[error |-> "KeyError"]>>
                 ELSE <<[error |-> "none", graphs |-> build_graph_for_all_majors(arg)]>>
    /\ UNCHANGED <<phase, json_files, disk, year_term_course_list,
                   major_graph_map, resp, arg>>

NextBuild == BuildGraphsOf

SpecBuild == InitBuild /\ [][NextBuild]_vars

-----------------------------------------------------------------------------
(* Properties *)

IsRender == resp.op = "generate_a_list"
IsSearch == resp.op = "get_courses"

\* the stored graph the request of the response was answered from
RequestedGraph ==
    BaseGraph(major_graph_map, resp.req.year, resp.req.term, resp.req.selectedMajorServ)

\* MajorGraphMap has no DepartmentGraph for the request's (term, department)
GraphAbsent ==
    \/ <<resp.req.year, resp.req.term>> \notin DOMAIN major_graph_map
    \/ resp.req.selectedMajorServ
           \notin DOMAIN major_graph_map[<<resp.req.year, resp.req.term>>]

TakenFormatted ==
    {course_fmt(resp.req.selectedCoursesServ[i]) :
        i \in 1..Len(resp.req.selectedCoursesServ)}

\* C1: while the process serves, no step changes the stored MajorGraphMap:
\* every department graph keeps the nodes and edges it had when
\* initialization ended, whatever renderGraph calls are made.
C1_StoredGraphsUnchanged ==
    [][phase = "serving" /\ phase' = "serving"
          => major_graph_map' = major_graph_map]_vars

\* a request has added a completed course to its copy of a stored graph
\* that has edges
C1_Witness ==
    /\ IsRender
    /\ ~GraphAbsent
    /\ Edges(RequestedGraph) # <<>>
    /\ TakenFormatted \ NodeSet(RequestedGraph) # {}

\* C2: no stored department graph has an edge from a node to itself, and no
\* rendered edge list has one.
C2_NoSelfLoop ==
    /\ \A key \in DOMAIN major_graph_map :
         \A dept \in DOMAIN major_graph_map[key] :
            \A e \in EdgeSet(major_graph_map[key][dept]) : e[1] # e[2]
    /\ IsRender =>
         \A i \in 1..Len(resp.edges) : resp.edges[i].source # resp.edges[i].target

\* the graph of a department whose record of COP3502C names COP 3502 as its
\* own prerequisite has been built and rendered with its edges
C2_Witness ==
    /\ IsRender
    /\ resp.req.selectedMajorServ = "CISE"
    /\ resp.edges # <<>>
    /\ course_fmt(COP3502C) \in NodeSet(RequestedGraph)
    /\ pre_fmt(CourseA.prerequisites) = course_fmt(CourseA.code)

\* C3 (as claimed): normalizing an already normalized code returns it
\* unchanged.
C3_Idempotent ==
    Len(result) = 2 => result[2] = result[1]

\* C3 (amended): normalizing an already normalized code inserts a second
\* separator after the first three characters of the stripped code; what
\* normalization does absorb is the stripped suffix: a code and the code
\* followed by an uppercase letter or a space normalize alike.
C3_SecondSeparator ==
    LET stripped == StripSuffix(arg)
    IN  /\ Len(result) >= 1 =>
            \A ch \in {"C", "Z", " "} : course_fmt(Append(arg, ch)) = result[1]
        /\ Len(result) = 2 =>
            /\ result[2] = Take(stripped, 3) \o <<Separator, Separator>>
                           \o Drop(stripped, 3)
            /\ result[2] # result[1]

\* a code with a subject, a number and a section letter has been normalized
\* twice
C3_Witness ==
    /\ Len(result) = 2
    /\ Len(StripSuffix(arg)) > 3
    /\ StripSuffix(arg) # arg

\* the substrings of text of the shape [A-Z]{3}\s\d{4}
PrereqSubstrings(text) ==
    {SubSeq(text, i, i + 7) : i \in {j \in 1..Len(text) : PrereqAt(text, j)}}

\* C4: the department graphs hold exactly the edges prerequisite -> course of
\* every record: for every record c and every prerequisite code p in c's
\* prerequisites text whose normal form differs from c's, the graph of c's
\* department has the edge, and the graphs have no other edge.
C4_EdgesOfEveryRecord ==
    (result # <<>> /\ result[1].error = "none") =>
    LET graphs == result[1].graphs
    IN  /\ \A i \in 1..Len(arg) :
             \A p \in PrereqSubstrings(Get(arg[i], "prerequisites", <<>>)) :
                pre_fmt(p) # course_fmt(arg[i].code) =>
                    /\ DeptOf(arg[i]) \in DOMAIN graphs
                    /\ <<pre_fmt(p), course_fmt(arg[i].code)>>
                           \in EdgeSet(graphs[DeptOf(arg[i])])
        /\ \A dept \in DOMAIN graphs :
             \A e \in EdgeSet(graphs[dept]) :
                \E i \in 1..Len(arg) :
                    /\ DeptOf(arg[i]) = dept
                    /\ e[2] = course_fmt(arg[i].code)
                    /\ \E p \in PrereqSubstrings(Get(arg[i], "prerequisites", <<>>)) :
                          e[1] = pre_fmt(p)

\* C5: every completed code whose normal form is not a node of the
\* department's stored graph is rendered as a node tagged "selected", and no
\* rendered edge starts or ends at it.
C5_CompletedIncluded ==
    IsRender =>
        \A n \in TakenFormatted \ NodeSet(RequestedGraph) :
            /\ \E i \in 1..Len(resp.nodes) :
                  resp.nodes[i].id = n /\ resp.nodes[i].classes = "selected"
            /\ \A i \in 1..Len(resp.edges) :
                  resp.edges[i].source # n /\ resp.edges[i].target # n

\* a completed course that the department's graph, which has edges, does not
\* hold has been rendered
C5_Witness ==
    /\ IsRender
    /\ Edges(RequestedGraph) # <<>>
    /\ TakenFormatted \ NodeSet(RequestedGraph) # {}
    /\ TakenFormatted \cap NodeSet(RequestedGraph) # {}

\* C6 (as claimed): renderGraph never fails, and renders nothing (no nodes,
\* no edges) for a (term, department) that has no graph.
C6_UnknownDeptEmpty ==
    IsRender =>
        /\ resp.status = 200
        /\ GraphAbsent => resp.nodes = <<>> /\ resp.edges = <<>>

\* C6 (amended): renderGraph never fails, and for a (term, department) that
\* has no graph it renders no edges and exactly the normalized completed
\* codes as nodes, each tagged "selected"; the output is empty when the
\* completed list is empty.
C6_UnknownDeptOnlyCompleted ==
    IsRender =>
        /\ resp.status = 200
        /\ GraphAbsent =>
            /\ resp.edges = <<>>
            /\ {resp.nodes[i].id : i \in 1..Len(resp.nodes)} = TakenFormatted
            /\ \A i \in 1..Len(resp.nodes) : resp.nodes[i].classes = "selected"
            /\ resp.req.selectedCoursesServ = <<>> => resp.nodes = <<>>

\* a department without a graph has been rendered, with completed courses,
\* for a term whose unassigned department has a graph with edges
C6_Witness ==
    /\ IsRender
    /\ GraphAbsent
    /\ resp.req.selectedCoursesServ # <<>>
    /\ <<resp.req.year, resp.req.term>> \in DOMAIN major_graph_map
    /\ Edges(BaseGraph(major_graph_map, resp.req.year, resp.req.term, "")) # <<>>

\* C7: a search with a non-empty phrase for a term no index was built for
\* during initialization is answered with the client-visible missing-term
\* error, not with results and not with another failure.
C7_UnknownTermError ==
    ( /\ IsSearch
      /\ resp.req.year # "" /\ resp.req.term # ""
      /\ Strip(resp.req.searchTerm) # <<>>
      /\ <<resp.req.year, resp.req.term>> \notin DOMAIN major_graph_map )
    => resp.status = 400

\* the rows of the index the search of the response ran on
SearchedRows == disk[DbName(resp.req.year, resp.req.term)].rows

\* the phrase equals the code or the codeWithSpace of the record
ExactFor(phrase, course) ==
    course.code = phrase \/ Get(course, "codeWithSpace", <<>>) = phrase

SearchAnswered ==
    IsSearch /\ resp.status = 200 /\ Strip(resp.req.searchTerm) # <<>>

\* the rowids of the rows that match the query of the response
MatchingRowids ==
    {i \in 1..Len(SearchedRows) :
        Matches(SearchedRows[i], FtsQuery(Strip(resp.req.searchTerm)))}

\* C8: in a search result no document whose code and codeWithSpace differ
\* from the phrase comes before a matching document whose code or
\* codeWithSpace equals the phrase, whatever the relevance scores; a first
\* page that shows a document of the other kind shows every exact match.
C8_ExactMatchFirst ==
    SearchAnswered =>
    LET phrase == resp.req.searchTerm
        body == resp.body
        exact == {i \in MatchingRowids :
                     ExactFor(phrase, json_loads(SearchedRows[i].json_data))}
    IN  /\ \A i, j \in 1..Len(body) :
              (ExactFor(phrase, body[j]) /\ ~ExactFor(phrase, body[i])) => j < i
        /\ ( /\ resp.req.startFrom <= 0
             /\ \E i \in 1..Len(body) : ~ExactFor(phrase, body[i]) )
           => Cardinality({i \in 1..Len(body) : ExactFor(phrase, body[i])})
                  = Cardinality(exact)

\* a search returned the exact match before another match that has a
\* strictly better (lower) relevance score
C8_Witness ==
    /\ SearchAnswered
    /\ Len(resp.body) >= 2
    /\ ExactFor(resp.req.searchTerm, resp.body[1])
    /\ \E i, j \in MatchingRowids :
          /\ ExactFor(resp.req.searchTerm, json_loads(SearchedRows[i].json_data))
          /\ ~ExactFor(resp.req.searchTerm, json_loads(SearchedRows[j].json_data))
          /\ resp.bm25[j] < resp.bm25[i]

\* the body get_courses returns on the present index for the request of the
\* response with another page, under the same relevance scores
PageOf(limit, offset) ==
    SearchResponse(disk, [resp.req EXCEPT !.itemsPerPage = limit,
                                          !.startFrom = offset], resp.bm25).body

C10_TrustExistingIndex ==
    [][\A db_name \in DOMAIN disk :
          Len(disk[db_name].rows) > 0 => disk'[db_name] = disk[db_name]]_vars

\* init_db_for_file has run for a term whose index held the documents of
\* other records than the file's
C10_Witness ==
    /\ phase = "init"
    /\ \E key \in DOMAIN year_term_course_list :
          LET rows == disk[DbName(key[1], key[2])].rows
          IN  /\ Len(rows) > 0
              /\ rows # InsertedRows(year_term_course_list[key])

\* the files whose name derives the term key of the database file
FilesOf(db_name) ==
    {f \in CourseFiles :
        LET key == parse_year_term_from_filename(f.parts)
        IN  DbName(key[1], key[2]) = db_name}

\* C11 (as claimed): once initialization is over, no index holds two
\* documents of the same course code.
C11_OneDocumentPerCode ==
    phase = "serving" =>
        \A db_name \in DOMAIN disk :
            \A i, j \in 1..Len(disk[db_name].rows) :
                disk[db_name].rows[i].code = disk[db_name].rows[j].code => i = j

\* C11 (amended): an index that is not empty holds exactly one document per
\* record of one collection of its term, in record order, so a code the
\* collection repeats has a document per repetition and another file of the
\* same term adds none; and a document, once written, stays as it is.
C11_OneDocumentPerRecord ==
    /\ [](\A db_name \in DOMAIN disk :
            \/ disk[db_name].rows = <<>>
            \/ \E f \in FilesOf(db_name) :
                  /\ \A i \in 1..Len(f.courses) : "code" \in DOMAIN f.courses[i]
                  /\ disk[db_name].rows =
                         [i \in 1..Len(f.courses) |-> IndexedDocument(f.courses[i])])
    /\ [][\A db_name \in DOMAIN disk :
             \A i \in 1..Len(disk[db_name].rows) :
                /\ i <= Len(disk'[db_name].rows)
                /\ disk'[db_name].rows[i] = disk[db_name].rows[i]]_vars

\* the process serves with an index that holds two documents of one code
C11_Witness ==
    /\ phase = "serving"
    /\ \E db_name \in DOMAIN disk :
          \E i, j \in 1..Len(disk[db_name].rows) :
              i # j /\ disk[db_name].rows[i].code = disk[db_name].rows[j].code

RECURSIVE IndexableDocuments(_)
\* the documents of the records that have a code, in record order
IndexableDocuments(all_courses) ==
    IF all_courses = <<>> THEN <<>>
    ELSE (IF "code" \in DOMAIN all_courses[1]
          THEN <<IndexedDocument(all_courses[1])>> ELSE <<>>)
         \o IndexableDocuments(Tail(all_courses))

\* C12: the build of a file never aborts: when the term's index is empty it
\* indexes every record that can be indexed, skipping the others, and the
\* init loop goes on to the remaining files.
C12_PartialSuccess ==
    [][(phase = "init" /\ json_files # <<>>) =>
          LET key == parse_year_term_from_filename(json_files[1].parts)
              db_name == DbName(key[1], key[2])
          IN  /\ phase' = "init"
              /\ json_files' = Tail(json_files)
              /\ (db_name \notin DOMAIN disk \/ disk[db_name].rows = <<>>)
                    => disk'[db_name].rows = IndexableDocuments(json_files[1].courses)]_vars

====
